---- MODULE Spec2Model ----
(***************************************************************************)
(* A model of src/public/assembler.py, the assembler for a subset of       *)
(* 32-bit RISC-V.  Python strings are TLA+ strings (Len, \o, SubSeq work   *)
(* on them character by character), Python lists are sequences, the label  *)
(* dictionary is a function from label names to addresses.                 *)
(*                                                                         *)
(* A Python call either returns a value or raises; an operator that models *)
(* a function that may raise yields a record [err, val]: err = "none" and  *)
(* val the returned value, or err the name of the exception class.         *)
(***************************************************************************)
EXTENDS Integers, Sequences, FiniteSets, TLC

\* ------------------------------------------------------------------------
\* Bounds of the model
\* ------------------------------------------------------------------------
MaxLines == 3
MaxIdx == 1

\* ------------------------------------------------------------------------
\* Outcome of a call
\* ------------------------------------------------------------------------
Ok(v) == [err |-> "none", val |-> v]
Raise(e) == [err |-> e, val |-> ""]

\* ------------------------------------------------------------------------
\* Python string primitives
\* ------------------------------------------------------------------------
Whitespace == {" ", "\t", "\n", "\r"}
Digits == {"0", "1", "2", "3", "4", "5", "6", "7", "8", "9"}

CharAt(s, i) == SubSeq(s, i, i)

RECURSIVE lstrip(_)
lstrip(s) ==
    IF Len(s) > 0 /\ CharAt(s, 1) \in Whitespace THEN lstrip(Tail(s)) ELSE s

RECURSIVE rstrip(_)
rstrip(s) ==
    IF Len(s) > 0 /\ CharAt(s, Len(s)) \in Whitespace
    THEN rstrip(SubSeq(s, 1, Len(s) - 1)) ELSE s

strip(s) == rstrip(lstrip(s))

\* s.rstrip(c) for a single character c
RECURSIVE rstrip_char(_, _)
rstrip_char(s, c) ==
    IF Len(s) > 0 /\ CharAt(s, Len(s)) = c
    THEN rstrip_char(SubSeq(s, 1, Len(s) - 1), c) ELSE s

\* s.replace(old, new) for a single character old
RECURSIVE replace(_, _, _)
replace(s, old, new) ==
    IF Len(s) = 0 THEN ""
    ELSE (IF CharAt(s, 1) = old THEN new ELSE CharAt(s, 1))
         \o replace(Tail(s), old, new)

\* position of the first occurrence of character c in s, 0 if there is none
RECURSIVE find(_, _, _)
find(s, c, i) ==
    IF i > Len(s) THEN 0
    ELSE IF CharAt(s, i) = c THEN i ELSE find(s, c, i + 1)

contains(s, c) == find(s, c, 1) > 0

\* s.split(c): all the pieces between occurrences of character c
RECURSIVE split_on(_, _)
split_on(s, c) ==
    LET p == find(s, c, 1) IN
    IF p = 0 THEN <<s>>
    ELSE <<SubSeq(s, 1, p - 1)>> \o split_on(SubSeq(s, p + 1, Len(s)), c)

\* s.split(c, 1): at most one split, at the first occurrence of c
split_max1(s, c) ==
    LET p == find(s, c, 1) IN
    IF p = 0 THEN <<s>>
    ELSE <<SubSeq(s, 1, p - 1), SubSeq(s, p + 1, Len(s))>>

\* s.split(): the maximal runs of non-whitespace characters
RECURSIVE split_ws(_, _)
split_ws(s, cur) ==
    IF Len(s) = 0 THEN (IF cur = "" THEN <<>> ELSE <<cur>>)
    ELSE IF CharAt(s, 1) \in Whitespace
         THEN (IF cur = "" THEN <<>> ELSE <<cur>>) \o split_ws(Tail(s), "")
         ELSE split_ws(Tail(s), cur \o CharAt(s, 1))

split(s) == split_ws(s, "")

startswith(s, c) == Len(s) > 0 /\ CharAt(s, 1) = c
endswith(s, c) == Len(s) > 0 /\ CharAt(s, Len(s)) = c

isdecimal(s) == Len(s) > 0 /\ \A i \in 1..Len(s) : CharAt(s, i) \in Digits

DigitVal(c) ==
    CASE c = "0" -> 0 [] c = "1" -> 1 [] c = "2" -> 2 [] c = "3" -> 3
      [] c = "4" -> 4 [] c = "5" -> 5 [] c = "6" -> 6 [] c = "7" -> 7
      [] c = "8" -> 8 [] c = "9" -> 9

RECURSIVE NatOf(_, _)
NatOf(s, acc) ==
    IF Len(s) = 0 THEN acc ELSE NatOf(Tail(s), 10 * acc + DigitVal(CharAt(s, 1)))

\* int(s): optional surrounding whitespace, optional sign, decimal digits;
\* anything else is a ValueError
int(s) ==
    LET t == strip(s)
        signed == Len(t) > 0 /\ CharAt(t, 1) \in {"-", "+"}
        body == IF signed THEN Tail(t) ELSE t
    IN  IF ~isdecimal(body) THEN Raise("ValueError")
        ELSE IF signed /\ CharAt(t, 1) = "-" THEN Ok(0 - NatOf(body, 0))
        ELSE Ok(NatOf(body, 0))

is_int(s) == int(s).err = "none"

\* ------------------------------------------------------------------------
\* Static tables
\* ------------------------------------------------------------------------
inst_to_types ==
    [add |-> "R", sub |-> "R", xor |-> "R", or |-> "R", and |-> "R",
     sll |-> "R", srl |-> "R", sra |-> "R", slt |-> "R",
     addi |-> "I", xori |-> "I", ori |-> "I", andi |-> "I", slli |-> "I",
     srli |-> "I", srai |-> "I", lw |-> "I", sw |-> "S", jalr |-> "I",
     beq |-> "SB", bne |-> "SB", blt |-> "SB", bge |-> "SB",
     jal |-> "UJ", lui |-> "U"]

\* FieldData(opcode, func3, func7); an absent field is None, written "None"
FieldData(opcode, func3, func7) ==
    [opcode |-> opcode, func3 |-> func3, func7 |-> func7]

inst_to_fields ==
    [add  |-> FieldData("0110011", "000", "0000000"),
     sub  |-> FieldData("0110011", "000", "0100000"),
     xor  |-> FieldData("0110011", "100", "0000000"),
     or   |-> FieldData("0110011", "110", "0000000"),
     and  |-> FieldData("0110011", "111", "0000000"),
     sll  |-> FieldData("0110011", "001", "0000000"),
     srl  |-> FieldData("0110011", "101", "0000000"),
     sra  |-> FieldData("0110011", "101", "0100000"),
     slt  |-> FieldData("0110011", "010", "0000000"),
     addi |-> FieldData("0010011", "000", "None"),
     xori |-> FieldData("0010011", "100", "None"),
     ori  |-> FieldData("0010011", "110", "None"),
     andi |-> FieldData("0010011", "111", "None"),
     slli |-> FieldData("0010011", "001", "None"),
     srli |-> FieldData("0010011", "101", "None"),
     srai |-> FieldData("0010011", "101", "None"),
     lw   |-> FieldData("0000011", "010", "None"),
     sw   |-> FieldData("0100011", "010", "None"),
     jalr |-> FieldData("1100111", "000", "None"),
     beq  |-> FieldData("1100011", "000", "None"),
     bne  |-> FieldData("1100011", "001", "None"),
     blt  |-> FieldData("1100011", "100", "None"),
     bge  |-> FieldData("1100011", "101", "None"),
     jal  |-> FieldData("1101111", "None", "None"),
     lui  |-> FieldData("0110111", "None", "None")]

register_name_to_num ==
    [x0 |-> 0, zero |-> 0, x1 |-> 1, ra |-> 1,
     x2 |-> 2, sp |-> 2, x3 |-> 3, gp |-> 3,
     x4 |-> 4, tp |-> 4, x5 |-> 5, t0 |-> 5,
     x6 |-> 6, t1 |-> 6, x7 |-> 7, t2 |-> 7,
     x8 |-> 8, s0 |-> 8, fp |-> 8,
     x9 |-> 9, s1 |-> 9, x10 |-> 10, a0 |-> 10,
     x11 |-> 11, a1 |-> 11, x12 |-> 12, a2 |-> 12,
     x13 |-> 13, a3 |-> 13, x14 |-> 14, a4 |-> 14,
     x15 |-> 15, a5 |-> 15, x16 |-> 16, a6 |-> 16,
     x17 |-> 17, a7 |-> 17, x18 |-> 18, s2 |-> 18,
     x19 |-> 19, s3 |-> 19, x20 |-> 20, s4 |-> 20,
     x21 |-> 21, s5 |-> 21, x22 |-> 22, s6 |-> 22,
     x23 |-> 23, s7 |-> 23, x24 |-> 24, s8 |-> 24,
     x25 |-> 25, s9 |-> 25, x26 |-> 26, s10 |-> 26,
     x27 |-> 26, s11 |-> 27, x28 |-> 28, t3 |-> 28,
     x29 |-> 29, t4 |-> 29, x30 |-> 30, t5 |-> 30,
     x31 |-> 31, at |-> 31]

is_register_name(name) == name \in DOMAIN register_name_to_num

is_core_inst(inst) == inst \in DOMAIN inst_to_types

\* ------------------------------------------------------------------------
\* Field codec
\* ------------------------------------------------------------------------
\* bin(n)[2:] for n >= 0
RECURSIVE bin(_)
bin(n) ==
    IF n < 2 THEN (IF n = 1 THEN "1" ELSE "0")
    ELSE bin(n \div 2) \o (IF n % 2 = 1 THEN "1" ELSE "0")

RECURSIVE zeros(_)
zeros(n) == IF n <= 0 THEN "" ELSE "0" \o zeros(n - 1)

\* dec_to_bin with the range check letting 2^size itself through
dec_to_bin_inclusive(decimal, size) ==
    IF decimal > 2 ^ size THEN Raise("BadImmediate")
    ELSE LET binary_string == bin(decimal % (2 ^ size))
         IN  Ok(zeros(size - Len(binary_string)) \o binary_string)

\* the body of dec_to_bin once `decimal` is an integer
dec_to_bin(decimal, size) ==
    IF decimal >= 2 ^ size THEN Raise("BadImmediate")
    ELSE LET binary_string == bin(decimal % (2 ^ size))
         IN  Ok(zeros(size - Len(binary_string)) \o binary_string)

\* dec_to_bin called with a string: parse it first
dec_to_bin_str(decimal, size) ==
    LET v == int(decimal) IN
    IF v.err # "none" THEN Raise("BadImmediate")
    ELSE dec_to_bin(v.val, size)

get_register_bin(name) ==
    IF name \notin DOMAIN register_name_to_num THEN Raise("BadRegister")
    ELSE LET binary_string == bin(register_name_to_num[name])
         IN  Ok(zeros(5 - Len(binary_string)) \o binary_string)

RECURSIVE join(_)
join(inst_list) ==
    IF Len(inst_list) = 0 THEN "" ELSE Head(inst_list) \o join(Tail(inst_list))

RECURSIVE remove_char(_, _)
remove_char(s, c) ==
    IF Len(s) = 0 THEN ""
    ELSE (IF CharAt(s, 1) = c THEN "" ELSE CharAt(s, 1)) \o remove_char(Tail(s), c)

\* Python slice s[i:j] with 0 <= i <= j (0-based, j exclusive, clipped)
slice(s, i, j) ==
    LET hi == IF j > Len(s) THEN Len(s) ELSE j IN
    IF i >= hi THEN "" ELSE SubSeq(s, i + 1, hi)

\* join_inst_fields_bin regrouping one group short (range(0, 28, 4))
join_inst_fields_bin_short(inst_list) ==
    LET joined == remove_char(join(inst_list), " ")
        padded == zeros(32 - Len(joined)) \o joined
    IN  slice(padded, 0, 4) \o " " \o slice(padded, 4, 8) \o " "
        \o slice(padded, 8, 12) \o " " \o slice(padded, 12, 16) \o " "
        \o slice(padded, 16, 20) \o " " \o slice(padded, 20, 24) \o " "
        \o slice(padded, 24, 28)

join_inst_fields_bin(inst_list) ==
    LET joined == remove_char(join(inst_list), " ")
        padded == zeros(32 - Len(joined)) \o joined
    IN  slice(padded, 0, 4) \o " " \o slice(padded, 4, 8) \o " "
        \o slice(padded, 8, 12) \o " " \o slice(padded, 12, 16) \o " "
        \o slice(padded, 16, 20) \o " " \o slice(padded, 20, 24) \o " "
        \o slice(padded, 24, 28) \o " " \o slice(padded, 28, 32)

parse_base_offset(operand_string) ==
    LET pieces == split_on(remove_char(operand_string, ")"), "(") IN
    IF Len(pieces) # 2 THEN Raise("BadImmediate")
    ELSE LET imm == dec_to_bin_str(pieces[1], 12) IN
         IF imm.err # "none" THEN imm
         ELSE LET rs1 == get_register_bin(pieces[2]) IN
              IF rs1.err # "none" THEN rs1
              ELSE Ok(<<imm.val, rs1.val>>)

\* ------------------------------------------------------------------------
\* Addresses and labels
\* ------------------------------------------------------------------------
TextBase == 4194304

index_to_address(index) == TextBase + index * 4

label_to_offset(labels, label, instruction_index) ==
    IF Cardinality(DOMAIN labels) = 0
    THEN Ok(TextBase - index_to_address(instruction_index))
    ELSE IF label \notin DOMAIN labels THEN Raise("BadLabel")
    ELSE Ok(labels[label] - index_to_address(instruction_index))

\* ------------------------------------------------------------------------
\* Instruction encoders
\* ------------------------------------------------------------------------
\* Assemble_R_Type with rs1 and rs2 in each other's field
Assemble_R_Type_swapped(cmd, operands, line_num) ==
    IF Len(operands) # 3 THEN Raise("BadOperands")
    ELSE LET field_data == inst_to_fields[cmd]
             rd  == get_register_bin(operands[1])
             rs1 == get_register_bin(operands[2])
             rs2 == get_register_bin(operands[3])
         IN  IF rd.err # "none" THEN rd
             ELSE IF rs1.err # "none" THEN rs1
             ELSE IF rs2.err # "none" THEN rs2
             ELSE Ok(join_inst_fields_bin(<<field_data.func7, rs1.val, rs2.val,
                                            field_data.func3, rd.val,
                                            field_data.opcode>>))

Assemble_R_Type(cmd, operands, line_num) ==
    IF Len(operands) # 3 THEN Raise("BadOperands")
    ELSE LET field_data == inst_to_fields[cmd]
             rd  == get_register_bin(operands[1])
             rs1 == get_register_bin(operands[2])
             rs2 == get_register_bin(operands[3])
         IN  IF rd.err # "none" THEN rd
             ELSE IF rs1.err # "none" THEN rs1
             ELSE IF rs2.err # "none" THEN rs2
             ELSE IF ~is_register_name(operands[3]) THEN Raise("BadRegister")
             ELSE IF ~is_register_name(operands[2]) THEN Raise("BadRegister")
             ELSE IF ~is_register_name(operands[1]) THEN Raise("BadRegister")
             ELSE Ok(join_inst_fields_bin(<<field_data.func7, rs2.val, rs1.val,
                                            field_data.func3, rd.val,
                                            field_data.opcode>>))

Assemble_I_Type(cmd, operands, line_num) ==
    IF Len(operands) # 3 THEN Raise("BadOperands")
    ELSE IF ~is_core_inst(cmd) THEN Raise("BadInstruction")
    ELSE LET field_data == inst_to_fields[cmd]
             rd  == get_register_bin(operands[1])
             rs1 == get_register_bin(operands[2])
             imm == dec_to_bin_str(operands[3], 12)
         IN  IF rd.err # "none" THEN rd
             ELSE IF rs1.err # "none" THEN rs1
             ELSE IF imm.err # "none" THEN imm
             ELSE Ok(join_inst_fields_bin(<<imm.val, rs1.val, field_data.func3,
                                            rd.val, field_data.opcode>>))

\* Assemble_I_Type_shift: the immediate is tested before the number of
\* operands, so a short list is an IndexError and a label a ValueError
Assemble_I_Type_shift(cmd, operands, line_num) ==
    IF Len(operands) < 3 THEN Raise("IndexError")
    ELSE LET v == int(operands[3]) IN
         IF v.err # "none" THEN v
         ELSE IF v.val < 0 \/ v.val > 13 THEN Raise("BadImmediate")
         ELSE IF Len(operands) # 3 THEN Raise("BadOperands")
         ELSE IF ~is_core_inst(cmd) THEN Raise("BadInstruction")
         ELSE LET field_data == inst_to_fields[cmd]
                  rd  == get_register_bin(operands[1])
                  rs1 == get_register_bin(operands[2])
                  imm == dec_to_bin_str(operands[3], 12)
              IN  IF rd.err # "none" THEN rd
                  ELSE IF rs1.err # "none" THEN rs1
                  ELSE IF imm.err # "none" THEN imm
                  ELSE LET field == IF cmd = "srai"
                                    THEN "010000" \o slice(imm.val, 6, 13)
                                    ELSE imm.val
                       IN  Ok(join_inst_fields_bin(<<field, rs1.val,
                                                     field_data.func3, rd.val,
                                                     field_data.opcode>>))

\* the operand list after the reordering of `jalr rd, base, offset`
\* (lines 342-347)
jalr_reorder(cmd, operands) ==
    IF cmd = "jalr" /\ Len(operands) = 3
       /\ isdecimal(operands[3]) /\ ~isdecimal(operands[2])
    THEN LET base == operands[2]
             wrapped == IF startswith(base, "(") /\ endswith(base, ")")
                        THEN base ELSE "(" \o base \o ")"
         IN  <<operands[1], operands[3], wrapped>>
    ELSE operands

Assemble_I_Type_base_offset(cmd, operands0, line_num) ==
    IF ~is_core_inst(cmd) THEN Raise("BadInstruction")
    ELSE IF Len(operands0) # 2 /\ cmd # "jalr" THEN Raise("BadOperands")
    ELSE LET operands == jalr_reorder(cmd, operands0) IN
         IF Len(operands) < 2 THEN Raise("IndexError")
         ELSE LET parsed == IF cmd = "jalr" /\ Len(operands) = 3
                            THEN parse_base_offset(operands[2] \o operands[3])
                            ELSE parse_base_offset(operands[2])
                  rd == get_register_bin(operands[1])
                  imm == IF CharAt(operands[2], 1) = "-"
                         THEN dec_to_bin_str(slice(operands[2], 0, 2), 12)
                         ELSE dec_to_bin_str(slice(operands[2], 0, 1), 12)
                  field_data == inst_to_fields[cmd]
              IN  IF parsed.err # "none" THEN parsed
                  ELSE IF rd.err # "none" THEN rd
                  ELSE IF imm.err # "none" THEN imm
                  ELSE Ok(join_inst_fields_bin(<<imm.val, parsed.val[2],
                                                 field_data.func3, rd.val,
                                                 field_data.opcode>>))

Assemble_S_Type(cmd, operands, line_num) ==
    IF ~is_core_inst(cmd) THEN Raise("BadInstruction")
    ELSE IF Len(operands) # 2 THEN Raise("BadOperands")
    ELSE LET rs2 == get_register_bin(operands[1])
             pieces == split_on(operands[2], "(")
             rs1 == get_register_bin(rstrip_char(pieces[2], ")"))
             imm == dec_to_bin_str(pieces[1], 12)
             field_data == inst_to_fields[cmd]
         IN  IF rs2.err # "none" THEN rs2
             ELSE IF Len(pieces) < 2 THEN Raise("IndexError")
             ELSE IF rs1.err # "none" THEN rs1
             ELSE IF imm.err # "none" THEN imm
             ELSE Ok(join_inst_fields_bin(<<slice(imm.val, 0, 7), rs2.val,
                                            rs1.val, field_data.func3,
                                            slice(imm.val, 7, 12),
                                            field_data.opcode>>))

\* SB_immediate looking the target up in the label table before it tests
\* for a register name
SB_immediate_label_first(operands, line_num, labels) ==
    IF Len(operands) = 3
    THEN LET offset == operands[3] IN
         IF isdecimal(offset) \/ CharAt(offset, 1) = "-"
         THEN LET v == int(offset) IN
              IF v.err # "none" THEN v
              ELSE dec_to_bin(v.val \div 2, 12)
         ELSE IF offset \in DOMAIN labels
         THEN dec_to_bin(label_to_offset(labels, offset, line_num).val \div 2, 12)
         ELSE IF is_register_name(offset) THEN Raise("BadImmediate")
         ELSE LET off == label_to_offset(labels, offset, line_num) IN
              IF off.err # "none" THEN off
              ELSE dec_to_bin(off.val \div 2, 12)
    ELSE IF Len(operands) = 2 THEN Ok("int:0")
    ELSE Raise("BadOperands")

\* the immediate of a branch (lines 489-500): err "none" and val the 12-bit
\* string, or val the integer 0 marked by int_imm when two operands are given
SB_immediate(operands, line_num, labels) ==
    IF Len(operands) = 3
    THEN LET offset == operands[3] IN
         IF isdecimal(offset) \/ CharAt(offset, 1) = "-"
         THEN LET v == int(offset) IN
              IF v.err # "none" THEN v
              ELSE dec_to_bin(v.val \div 2, 12)
         ELSE IF is_register_name(offset) THEN Raise("BadImmediate")
         ELSE LET off == label_to_offset(labels, offset, line_num) IN
              IF off.err # "none" THEN off
              ELSE dec_to_bin(off.val \div 2, 12)
    ELSE IF Len(operands) = 2 THEN Ok("int:0")
    ELSE Raise("BadOperands")

\* Assemble_SB_Type with imm[12] and imm[11] in each other's place
Assemble_SB_Type_bits_exchanged(cmd, operands, line_num, labels) ==
    IF ~is_core_inst(cmd) THEN Raise("BadInstruction")
    ELSE LET imm == SB_immediate(operands, line_num, labels) IN
         IF imm.err # "none" THEN imm
         ELSE LET rs1 == get_register_bin(operands[1])
                  rs2 == get_register_bin(operands[2])
                  field_data == inst_to_fields[cmd]
                  firstBits == slice(imm.val, 1, 2)
                  secondBits == slice(imm.val, 2, 8)
                  thirdBits == slice(imm.val, 8, 12)
                  lastBits == slice(imm.val, 0, 1)
              IN  IF rs1.err # "none" THEN rs1
                  ELSE IF rs2.err # "none" THEN rs2
                  ELSE IF imm.val = "int:0" THEN Raise("TypeError")
                  ELSE Ok(join_inst_fields_bin(<<firstBits \o secondBits,
                                                 rs2.val, rs1.val,
                                                 field_data.func3,
                                                 thirdBits \o lastBits,
                                                 field_data.opcode>>))

Assemble_SB_Type(cmd, operands, line_num, labels) ==
    IF ~is_core_inst(cmd) THEN Raise("BadInstruction")
    ELSE LET imm == SB_immediate(operands, line_num, labels) IN
         IF imm.err # "none" THEN imm
         ELSE LET rs1 == get_register_bin(operands[1])
                  rs2 == get_register_bin(operands[2])
                  field_data == inst_to_fields[cmd]
                  firstBits == slice(imm.val, 0, 1)
                  secondBits == slice(imm.val, 2, 8)
                  thirdBits == slice(imm.val, 8, 12)
                  lastBits == slice(imm.val, 1, 2)
              IN  IF rs1.err # "none" THEN rs1
                  ELSE IF rs2.err # "none" THEN rs2
                  ELSE IF imm.val = "int:0" THEN Raise("TypeError")
                  ELSE Ok(join_inst_fields_bin(<<firstBits \o secondBits,
                                                 rs2.val, rs1.val,
                                                 field_data.func3,
                                                 thirdBits \o lastBits,
                                                 field_data.opcode>>))

Assemble_U_Type(cmd, operands, line_num) ==
    IF ~is_core_inst(cmd) THEN Raise("BadInstruction")
    ELSE IF Len(operands) # 2 THEN Raise("BadOperands")
    ELSE LET rd == get_register_bin(operands[1])
             tok == operands[2]
             digits == IF CharAt(tok, 1) = "-" THEN Tail(tok) ELSE tok
             v == int(tok)
             imm == dec_to_bin_str(tok, 20)
             field_data == inst_to_fields[cmd]
         IN  IF rd.err # "none" THEN rd
             ELSE IF ~isdecimal(digits) THEN Raise("BadImmediate")
             ELSE IF v.val < -524288 \/ v.val > 524287 THEN Raise("BadImmediate")
             ELSE IF imm.err # "none" THEN imm
             ELSE Ok(join_inst_fields_bin(<<imm.val, rd.val, field_data.opcode>>))

\* Assemble_UJ_Type leaving the bits of the immediate in their order
Assemble_UJ_Type_in_order(cmd, operands, line_num, labels) ==
    IF ~is_core_inst(cmd) THEN Raise("BadInstruction")
    ELSE IF Len(operands) # 2 THEN Raise("BadOperands")
    ELSE LET rd == get_register_bin(operands[1])
             v == int(operands[2])
             offset == IF v.err = "none"
                       THEN (IF v.val < -(2 ^ 20) \/ v.val > 2 ^ 20 - 1
                             THEN Raise("BadImmediate") ELSE v)
                       ELSE IF is_register_name(operands[2])
                            THEN Raise("BadImmediate")
                            ELSE label_to_offset(labels, operands[2], line_num)
             field_data == inst_to_fields[cmd]
         IN  IF rd.err # "none" THEN rd
             ELSE IF offset.err # "none" THEN offset
             ELSE LET imm == dec_to_bin(offset.val \div 2, 20) IN
                  IF imm.err # "none" THEN imm
                  ELSE LET first_bit == slice(imm.val, 0, 1)
                           second_bits == slice(imm.val, 1, 9)
                           third_bit == slice(imm.val, 9, 10)
                           fourth_bits == slice(imm.val, 10, 20)
                           total_imm == first_bit \o second_bits
                                        \o third_bit \o fourth_bits
                       IN  Ok(join_inst_fields_bin(<<total_imm, rd.val,
                                                     field_data.opcode>>))

Assemble_UJ_Type(cmd, operands, line_num, labels) ==
    IF ~is_core_inst(cmd) THEN Raise("BadInstruction")
    ELSE IF Len(operands) # 2 THEN Raise("BadOperands")
    ELSE LET rd == get_register_bin(operands[1])
             v == int(operands[2])
             offset == IF v.err = "none"
                       THEN (IF v.val < -(2 ^ 20) \/ v.val > 2 ^ 20 - 1
                             THEN Raise("BadImmediate") ELSE v)
                       ELSE IF is_register_name(operands[2])
                            THEN Raise("BadImmediate")
                            ELSE label_to_offset(labels, operands[2], line_num)
             field_data == inst_to_fields[cmd]
         IN  IF rd.err # "none" THEN rd
             ELSE IF offset.err # "none" THEN offset
             ELSE LET imm == dec_to_bin(offset.val \div 2, 20) IN
                  IF imm.err # "none" THEN imm
                  ELSE LET first_bit == slice(imm.val, 0, 1)
                           second_bits == slice(imm.val, 1, 9)
                           third_bit == slice(imm.val, 9, 10)
                           fourth_bits == slice(imm.val, 10, 20)
                           total_imm == first_bit \o fourth_bits
                                        \o third_bit \o second_bits
                       IN  Ok(join_inst_fields_bin(<<total_imm, rd.val,
                                                     field_data.opcode>>))

\* inst.strip().replace(",", " ").split()
tokenize(inst) == split(replace(strip(inst), ",", " "))

Assemble(inst, line_num, labels) ==
    LET split_inst == tokenize(inst) IN
    IF Len(split_inst) = 0 THEN Raise("IndexError")
    ELSE LET cmd == split_inst[1]
             args == Tail(split_inst)
             type == IF cmd \in DOMAIN inst_to_types
                     THEN inst_to_types[cmd] ELSE "None"
         IN  CASE type = "R" -> Assemble_R_Type(cmd, args, line_num)
               [] type = "I" ->
                    IF cmd = "lw" \/ cmd = "jalr"
                    THEN Assemble_I_Type_base_offset(cmd, args, line_num)
                    ELSE Assemble_I_Type(cmd, args, line_num)
               [] type = "S" -> Assemble_S_Type(cmd, args, line_num)
               [] type = "U" -> Assemble_U_Type(cmd, args, line_num)
               [] type = "UJ" -> Assemble_UJ_Type(cmd, args, line_num, labels)
               [] type = "SB" -> Assemble_SB_Type(cmd, args, line_num, labels)
               [] OTHER -> Ok("")

\* ------------------------------------------------------------------------
\* Comments, labels and the passes of the assembler
\* ------------------------------------------------------------------------
\* remove_comments: <<>> stands for None, <<s>> for the returned string
remove_comments(line0) ==
    LET line == lstrip(line0) IN
    IF startswith(line, ";") \/ rstrip(line) = "" THEN <<>>
    ELSE <<split_on(line, ";")[1]>>

RECURSIVE comments_pass(_)
comments_pass(asm_lines_) ==
    IF Len(asm_lines_) = 0 THEN <<>>
    ELSE remove_comments(lstrip(Head(asm_lines_))) \o comments_pass(Tail(asm_lines_))

\* split_out_label: val = <<label, inst>>, each <<>> for None or <<s>>
split_out_label(line) ==
    LET clean == strip(line) IN
    IF contains(clean, ":")
    THEN LET parts == split_max1(line, ":")
             label == strip(parts[1])
             inst == IF Len(strip(parts[2])) > 0 THEN <<strip(parts[2])>> ELSE <<>>
         IN  IF Len(split(label)) > 1 THEN Raise("BadLabel")
             ELSE Ok(<<(<<label>>), inst>>)
    ELSE Ok(<<(<<>>), (<<clean>>)>>)

\* An expansion rule of the registry, applied to (instruction text, index):
\* `nop` is one core instruction, `quad r` is two.
expansion_rule(command, instr, i) ==
    IF command = "nop" THEN <<"addi x0, x0, 0">>
    ELSE LET r == IF Len(tokenize(instr)) > 1 THEN tokenize(instr)[2] ELSE "x0"
             line == "add " \o r \o ", " \o r \o ", " \o r
         IN  <<line, line>>

\* one iteration of the loop of pseudoinstruction_pass: the lines it adds
pseudoinstruction_line(line, i, pseudos_dictionary) ==
    LET sp == split_out_label(line) IN
    IF sp.err # "none" THEN sp
    ELSE LET instr == sp.val[2] IN
         IF instr = <<>> THEN Raise("AttributeError")
         ELSE IF Len(split(instr[1])) = 0 THEN Raise("IndexError")
         ELSE LET command == split(instr[1])[1] IN
              IF command \in pseudos_dictionary
              THEN Ok(expansion_rule(command, instr[1], i))
              ELSE Ok(<<line>>)

RECURSIVE pseudoinstruction_loop(_, _, _, _)
pseudoinstruction_loop(asm_lines_, i, pseudos_dictionary, newLines) ==
    IF i > Len(asm_lines_) THEN Ok(newLines)
    ELSE LET r == pseudoinstruction_line(asm_lines_[i], i - 1, pseudos_dictionary) IN
         IF r.err # "none" THEN r
         ELSE pseudoinstruction_loop(asm_lines_, i + 1, pseudos_dictionary,
                                     newLines \o r.val)

pseudoinstruction_pass(asm_lines_, pseudos_dictionary) ==
    pseudoinstruction_loop(asm_lines_, 1, pseudos_dictionary, <<>>)

\* parse_labels_line advancing the counter on a label-only line too
parse_labels_line_advancing(line, instructions_, label_dict_, address_) ==
    LET parts == split_max1(line, ":") IN
    IF Len(parts) = 2
    THEN LET label == strip(parts[1])
             instruction == strip(parts[2])
         IN  IF label \in DOMAIN label_dict_ THEN Raise("BadLabel")
             ELSE LET bound == [l \in DOMAIN label_dict_ \cup {label} |->
                                  IF l = label THEN address_ ELSE label_dict_[l]]
                  IN  IF instruction # ""
                      THEN Ok([instructions |-> Append(instructions_, instruction),
                               label_dict |-> bound, address |-> address_ + 4])
                      ELSE Ok([instructions |-> instructions_,
                               label_dict |-> bound, address |-> address_ + 4])
    ELSE Ok([instructions |-> Append(instructions_, strip(parts[1])),
             label_dict |-> label_dict_, address |-> address_ + 4])

\* parse_labels_line binding the label after the increment for its line
parse_labels_line_bind_after(line, instructions_, label_dict_, address_) ==
    LET parts == split_max1(line, ":") IN
    IF Len(parts) = 2
    THEN LET label == strip(parts[1])
             instruction == strip(parts[2])
             next == IF instruction # "" THEN address_ + 4 ELSE address_
         IN  IF label \in DOMAIN label_dict_ THEN Raise("BadLabel")
             ELSE LET bound == [l \in DOMAIN label_dict_ \cup {label} |->
                                  IF l = label THEN next ELSE label_dict_[l]]
                  IN  IF instruction # ""
                      THEN Ok([instructions |-> Append(instructions_, instruction),
                               label_dict |-> bound, address |-> next])
                      ELSE Ok([instructions |-> instructions_,
                               label_dict |-> bound, address |-> next])
    ELSE Ok([instructions |-> Append(instructions_, strip(parts[1])),
             label_dict |-> label_dict_, address |-> address_ + 4])

\* parse_labels_line without the check for a label defined before
parse_labels_line_rebind(line, instructions_, label_dict_, address_) ==
    LET parts == split_max1(line, ":") IN
    IF Len(parts) = 2
    THEN LET label == strip(parts[1])
             instruction == strip(parts[2])
             bound == [l \in DOMAIN label_dict_ \cup {label} |->
                          IF l = label THEN address_ ELSE label_dict_[l]]
         IN  IF instruction # ""
             THEN Ok([instructions |-> Append(instructions_, instruction),
                      label_dict |-> bound, address |-> address_ + 4])
             ELSE Ok([instructions |-> instructions_,
                      label_dict |-> bound, address |-> address_])
    ELSE Ok([instructions |-> Append(instructions_, strip(parts[1])),
             label_dict |-> label_dict_, address |-> address_ + 4])

\* one iteration of the loop of parse_labels on the locals
\* (instructions, label_dict, address)
parse_labels_line(line, instructions_, label_dict_, address_) ==
    LET parts == split_max1(line, ":") IN
    IF Len(parts) = 2
    THEN LET label == strip(parts[1])
             instruction == strip(parts[2])
         IN  IF label \in DOMAIN label_dict_ THEN Raise("BadLabel")
             ELSE LET bound == [l \in DOMAIN label_dict_ \cup {label} |->
                                  IF l = label THEN address_ ELSE label_dict_[l]]
                  IN  IF instruction # ""
                      THEN Ok([instructions |-> Append(instructions_, instruction),
                               label_dict |-> bound, address |-> address_ + 4])
                      ELSE Ok([instructions |-> instructions_,
                               label_dict |-> bound, address |-> address_])
    ELSE Ok([instructions |-> Append(instructions_, strip(parts[1])),
             label_dict |-> label_dict_, address |-> address_ + 4])

\* bin_to_hex raises ValueError on a string without binary digits
bin_to_hex_fails(bin_string) == remove_char(bin_string, " ") = ""

\* ------------------------------------------------------------------------
\* Inputs of the model
\* ------------------------------------------------------------------------
RawLines ==
    {"add t0, t1, t2", "L1:", "L1: addi t0, t1, 5", "L2:",
     "beq t0, t1, L1 ; loop", "  ; note", "nop", "L2 : quad t0",
     "a b: add t0, t1, t2"}

\* programs handed to parse_labels directly carry no comments
CleanLines ==
    {"add t0, t1, t2", "L1:", "L1: addi t0, t1, 5", "L2:",
     "beq t0, t1, L1", "L2 : sub t0, t1, t2", "jal ra, L2"}

Registries == {{}, {"nop", "quad"}}

RECURSIVE SeqsUpTo(_, _)
SeqsUpTo(S, n) ==
    IF n = 0 THEN {<<>>}
    ELSE LET shorter == SeqsUpTo(S, n - 1) IN
         shorter \cup {Append(q, x) : q \in {r \in shorter : Len(r) = n - 1}, x \in S}

Mnemonics == DOMAIN inst_to_types \cup {"mul"}

Operand1 == {"t0", "x27", "invalid_reg"}
Operand2 == {"t1", "invalid_reg", "5", "4(t1)", "-12(t1)", "12(bad)", "2048(t1)"}
Operand3 == {"t2", "invalid_reg", "0", "5", "31", "2047", "2048", "4094", "4096",
             "-1", "-8", "-2048", "-2049", "-4096", "L1", "nolabel", "(t1)"}

\* second operand of the two-operand instructions with an immediate or target
Targets == Operand3 \cup {"1048575", "1048576", "-1048576", "-1048577"}

OperandLists ==
    {<<>>} \cup {<<a>> : a \in Operand1}
           \cup {<<a, b>> : a \in Operand1, b \in Operand2}
           \cup {<<a, c>> : a \in Operand1, c \in Targets}
           \cup {<<a, b, c>> : a \in Operand1, b \in Operand2, c \in Operand3}
           \cup {<<"t0", "t1", "t2", "5">>, <<"t0", "4(t1)", "t1", "5">>}

RECURSIVE join_operands(_)
join_operands(ops) ==
    IF Len(ops) = 0 THEN ""
    ELSE IF Len(ops) = 1 THEN ops[1]
    ELSE ops[1] \o ", " \o join_operands(Tail(ops))

InstructionText(cmd, ops) ==
    IF Len(ops) = 0 THEN cmd ELSE cmd \o " " \o join_operands(ops)

LabelTables ==
    {<<>>, [L1 |-> TextBase + 8], [L1 |-> TextBase, t2 |-> TextBase + 4]}

\* line_num and labels are read by the SB and UJ encoders only
UsesLabels(cmd) == cmd \in DOMAIN inst_to_types /\ inst_to_types[cmd] \in {"SB", "UJ"}

\* the decimal digits of n >= 0
RECURSIVE decimal_string(_)
decimal_string(n) ==
    LET d == CHOOSE c \in Digits : DigitVal(c) = n % 10 IN
    IF n < 10 THEN d ELSE decimal_string(n \div 10) \o d

\* the alias xn of register n
XName(n) == "x" \o decimal_string(n)

\* arguments of a direct call of get_register_bin: every key of the table,
\* every xn up to x33, and names that are no register
RegisterArgs ==
    DOMAIN register_name_to_num
        \cup {XName(n) : n \in 0..33}
        \cup {"", "X5", "x", "x05", "5", "invalid_reg", "T0", "s12", "pc"}

\* mnemonics of a direct call of Assemble_I_Type_shift
ShiftMnemonics == {"slli", "srli", "srai", "mul"}

\* arguments of a direct call of dec_to_bin: integers on both sides of
\* 2^size and of -2^(size-1) for each size, and strings
IntArgs ==
    {-2000000, -1048577, -1048576, -524289, -524288, -5000, -4097, -4096,
     -2049, -2048, -33, -32, -17, -16, -1, 0, 1, 15, 16, 31, 32, 33, 2047,
     2048, 4095, 4096, 4097, 524287, 524288, 1048575, 1048576, 1048577}

StrArgs ==
    {"", "abc", "1.5", "-", "t1", "0x10", "0", "12", "-1", " 5 ", "+7",
     "31", "32", "4095", "4096", "-2049", "1048576"}

Sizes == {5, 12, 20}

\* ------------------------------------------------------------------------
\* State
\* ------------------------------------------------------------------------
VARIABLES
    pc,            \* the function being executed, "idle" before any call
    entry,         \* the function the caller invoked
    asm_lines,     \* argument of assemble_asm
    pseudos,       \* the registry of pseudoinstructions
    lines,         \* the list the current pass iterates over
    idx,           \* 1-based position of the current loop in its list
    instructions,  \* parse_labels: instructions
    label_dict,    \* parse_labels: label_dict
    address,       \* parse_labels: address
    inst,          \* Assemble: inst
    line_num,      \* Assemble: line_num
    labels,        \* Assemble / machine_pass: labels
    machine_code,  \* machine_pass: machine_code
    name,          \* get_register_bin: name
    decimal,       \* dec_to_bin: decimal, an int or a str
    size,          \* dec_to_bin: size
    err,           \* "none" or the exception that ended the call
    ret            \* <<>> until the call returns, then <<returned value>>

vars == <<pc, entry, asm_lines, pseudos, lines, idx, instructions, label_dict,
          address, inst, line_num, labels, machine_code, name, decimal, size,
          err, ret>>

Init ==
    /\ pc = "idle"
    /\ entry = "none"
    /\ asm_lines = <<>>
    /\ pseudos = {}
    /\ lines = <<>>
    /\ idx = 1
    /\ instructions = <<>>
    /\ label_dict = <<>>
    /\ address = TextBase
    /\ inst = ""
    /\ line_num = 0
    /\ labels = <<>>
    /\ machine_code = <<>>
    /\ name = ""
    /\ decimal = [type |-> "int", val |-> 0]
    /\ size = 12
    /\ err = "none"
    /\ ret = <<>>

\* ------------------------------------------------------------------------
\* Calls
\* ------------------------------------------------------------------------
\* Assemble(inst, line_num, labels), called on its own
Call_Assemble ==
    /\ pc = "idle"
    /\ \E cmd \in Mnemonics, ops \in OperandLists,
          n \in 0..MaxIdx, labs \in LabelTables :
          /\ UsesLabels(cmd) \/ (n = 0 /\ labs = <<>>)
          /\ LET text == InstructionText(cmd, ops)
                 result == Assemble(text, n, labs)
             IN  /\ inst' = text
                 /\ line_num' = n
                 /\ labels' = labs
                 /\ err' = result.err
                 /\ ret' = IF result.err = "none" THEN <<result.val>> ELSE <<>>
    /\ pc' = "Assemble"
    /\ entry' = "Assemble"
    /\ UNCHANGED <<name, decimal, size, asm_lines, pseudos, lines, idx, instructions, label_dict,
                   address, machine_code>>

\* Assemble_I_Type_shift(cmd, operands, line_num), called on its own: no
\* function of the module calls it; cmd and operands are the tokens of inst
Call_Assemble_I_Type_shift ==
    /\ pc = "idle"
    /\ \E cmd \in ShiftMnemonics, ops \in OperandLists :
          LET result == Assemble_I_Type_shift(cmd, ops, 0) IN
          /\ inst' = InstructionText(cmd, ops)
          /\ err' = result.err
          /\ ret' = IF result.err = "none" THEN <<result.val>> ELSE <<>>
    /\ line_num' = 0
    /\ labels' = <<>>
    /\ pc' = "Assemble_I_Type_shift"
    /\ entry' = "Assemble_I_Type_shift"
    /\ UNCHANGED <<name, decimal, size, asm_lines, pseudos, lines, idx, instructions,
                   label_dict, address, machine_code>>

\* get_register_bin(name), called on its own
Call_get_register_bin ==
    /\ pc = "idle"
    /\ \E nm \in RegisterArgs :
          LET result == get_register_bin(nm) IN
          /\ name' = nm
          /\ err' = result.err
          /\ ret' = IF result.err = "none" THEN <<result.val>> ELSE <<>>
    /\ pc' = "get_register_bin"
    /\ entry' = "get_register_bin"
    /\ UNCHANGED <<decimal, size, asm_lines, pseudos, lines, idx, instructions,
                   label_dict, address, inst, line_num, labels, machine_code>>

\* dec_to_bin(decimal, size), called on its own with the argument d
dec_to_bin_call(d, sz) ==
    LET result == IF d.type = "str" THEN dec_to_bin_str(d.val, sz)
                                    ELSE dec_to_bin(d.val, sz)
    IN  /\ decimal' = d
        /\ size' = sz
        /\ err' = result.err
        /\ ret' = IF result.err = "none" THEN <<result.val>> ELSE <<>>

Call_dec_to_bin ==
    /\ pc = "idle"
    /\ \E sz \in Sizes :
          \/ \E v \in IntArgs : dec_to_bin_call([type |-> "int", val |-> v], sz)
          \/ \E t \in StrArgs : dec_to_bin_call([type |-> "str", val |-> t], sz)
    /\ pc' = "dec_to_bin"
    /\ entry' = "dec_to_bin"
    /\ UNCHANGED <<name, asm_lines, pseudos, lines, idx, instructions, label_dict,
                   address, inst, line_num, labels, machine_code>>

\* parse_labels(asm_list), called on its own: the locals are initialised
Call_parse_labels ==
    /\ pc = "idle"
    /\ \E prog \in SeqsUpTo(CleanLines, MaxLines) : lines' = prog
    /\ pc' = "parse_labels"
    /\ entry' = "parse_labels"
    /\ idx' = 1
    /\ instructions' = <<>>
    /\ label_dict' = <<>>
    /\ address' = TextBase
    /\ UNCHANGED <<name, decimal, size, asm_lines, pseudos, inst, line_num, labels, machine_code,
                   err, ret>>

\* assemble_asm(asm_lines) with the registry the handler module supplies
Call_assemble_asm ==
    /\ pc = "idle"
    /\ \E prog \in SeqsUpTo(RawLines, MaxLines) : asm_lines' = prog
    /\ \E reg \in Registries : pseudos' = reg
    /\ pc' = "comments_pass"
    /\ entry' = "assemble_asm"
    /\ UNCHANGED <<name, decimal, size, lines, idx, instructions, label_dict, address, inst,
                   line_num, labels, machine_code, err, ret>>

\* ------------------------------------------------------------------------
\* The passes of assemble_asm
\* ------------------------------------------------------------------------
Do_comments_pass ==
    /\ pc = "comments_pass" /\ err = "none"
    /\ lines' = comments_pass(asm_lines)
    /\ pc' = "pseudoinstruction_pass"
    /\ UNCHANGED <<name, decimal, size, entry, asm_lines, pseudos, idx, instructions, label_dict,
                   address, inst, line_num, labels, machine_code, err, ret>>

Do_pseudoinstruction_pass ==
    /\ pc = "pseudoinstruction_pass" /\ err = "none"
    /\ LET core_asm == pseudoinstruction_pass(lines, pseudos) IN
       IF core_asm.err # "none"
       THEN /\ err' = core_asm.err
            /\ UNCHANGED <<pc, lines, idx, instructions, label_dict, address>>
       ELSE /\ lines' = core_asm.val
            /\ pc' = "parse_labels"
            /\ idx' = 1
            /\ instructions' = <<>>
            /\ label_dict' = <<>>
            /\ address' = TextBase
            /\ UNCHANGED err
    /\ UNCHANGED <<name, decimal, size, entry, asm_lines, pseudos, inst, line_num, labels,
                   machine_code, ret>>

\* one iteration of the loop of parse_labels
Step_parse_labels ==
    /\ pc = "parse_labels" /\ err = "none"
    /\ idx <= Len(lines)
    /\ LET r == parse_labels_line(lines[idx], instructions, label_dict, address) IN
       IF r.err # "none"
       THEN /\ err' = r.err
            /\ UNCHANGED <<idx, instructions, label_dict, address>>
       ELSE /\ instructions' = r.val.instructions
            /\ label_dict' = r.val.label_dict
            /\ address' = r.val.address
            /\ idx' = idx + 1
            /\ UNCHANGED err
    /\ UNCHANGED <<name, decimal, size, pc, entry, asm_lines, pseudos, lines, inst, line_num,
                   labels, machine_code, ret>>

\* parse_labels returns (instructions, label_dict) to an outside caller
Return_parse_labels ==
    /\ pc = "parse_labels" /\ err = "none" /\ entry = "parse_labels"
    /\ idx > Len(lines)
    /\ ret' = <<[instructions |-> instructions, labels |-> label_dict]>>
    /\ pc' = "done"
    /\ UNCHANGED <<name, decimal, size, entry, asm_lines, pseudos, lines, idx, instructions,
                   label_dict, address, inst, line_num, labels, machine_code, err>>

\* parse_labels returns to assemble_asm, which starts machine_pass
Enter_machine_pass ==
    /\ pc = "parse_labels" /\ err = "none" /\ entry = "assemble_asm"
    /\ idx > Len(lines)
    /\ pc' = "machine_pass"
    /\ lines' = instructions
    /\ labels' = label_dict
    /\ idx' = 1
    /\ machine_code' = <<>>
    /\ UNCHANGED <<name, decimal, size, entry, asm_lines, pseudos, instructions, label_dict,
                   address, inst, line_num, err, ret>>

\* one iteration of the loop of machine_pass
Step_machine_pass ==
    /\ pc = "machine_pass" /\ err = "none"
    /\ idx <= Len(lines)
    /\ LET result == Assemble(lines[idx], idx - 1, labels) IN
       /\ inst' = lines[idx]
       /\ line_num' = idx - 1
       /\ IF result.err # "none"
          THEN /\ err' = result.err
               /\ UNCHANGED <<idx, machine_code>>
          ELSE /\ machine_code' = Append(machine_code, result.val)
               /\ idx' = idx + 1
               /\ UNCHANGED err
    /\ UNCHANGED <<name, decimal, size, pc, entry, asm_lines, pseudos, lines, instructions,
                   label_dict, address, labels, ret>>

Return_machine_pass ==
    /\ pc = "machine_pass" /\ err = "none"
    /\ idx > Len(lines)
    /\ pc' = "output"
    /\ UNCHANGED <<name, decimal, size, entry, asm_lines, pseudos, lines, idx, instructions,
                   label_dict, address, inst, line_num, labels, machine_code,
                   err, ret>>

\* output(machine_code, clean_code, labels, mode, out), then the return of
\* assemble_asm; every mode but "bin" converts each word with bin_to_hex
Do_output ==
    /\ pc = "output" /\ err = "none"
    /\ \E mode \in {"None", "bin", "hex"} :
          IF mode # "bin" /\ \E k \in 1..Len(machine_code) :
                                 bin_to_hex_fails(machine_code[k])
          THEN /\ err' = "ValueError"
               /\ UNCHANGED <<pc, ret>>
          ELSE /\ pc' = "done"
               /\ ret' = <<machine_code>>
               /\ UNCHANGED err
    /\ UNCHANGED <<name, decimal, size, entry, asm_lines, pseudos, lines, idx, instructions,
                   label_dict, address, inst, line_num, labels, machine_code>>

Next ==
    \/ Call_Assemble
    \/ Call_get_register_bin
    \/ Call_Assemble_I_Type_shift
    \/ Call_dec_to_bin
    \/ Call_parse_labels
    \/ Call_assemble_asm
    \/ Do_comments_pass
    \/ Do_pseudoinstruction_pass
    \/ Step_parse_labels
    \/ Return_parse_labels
    \/ Enter_machine_pass
    \/ Step_machine_pass
    \/ Return_machine_pass
    \/ Do_output

Spec == Init /\ [][Next]_vars

\* ------------------------------------------------------------------------
\* Vocabulary of the properties
\* ------------------------------------------------------------------------
HasLabel(line) == contains(line, ":")

LineLabel(line) == strip(SubSeq(line, 1, find(line, ":", 1) - 1))

LineInstruction(line) ==
    IF HasLabel(line) THEN strip(SubSeq(line, find(line, ":", 1) + 1, Len(line)))
    ELSE strip(line)

LabelOnly(line) == HasLabel(line) /\ LineInstruction(line) = ""

\* number of instruction-bearing lines among the first k lines of ls
InstructionsBefore(ls, k) ==
    Cardinality({j \in 1..k : ~LabelOnly(ls[j])})

DeclaredLabels(ls) == {LineLabel(ls[j]) : j \in {i \in 1..Len(ls) : HasLabel(ls[i])}}

HasDuplicateLabel(ls) ==
    \E i, j \in 1..Len(ls) :
        i < j /\ HasLabel(ls[i]) /\ HasLabel(ls[j]) /\ LineLabel(ls[i]) = LineLabel(ls[j])

InParseLabels == pc = "parse_labels"
ParseLabelsReturned == pc = "done" /\ entry = "parse_labels"

\* C3: in parse_labels, after any prefix of the lines the address counter is
\* 0x00400000 + 4 * (instructions emitted so far), the instructions emitted
\* are exactly the instruction-bearing lines of the prefix whatever label-only
\* lines lie between them, and the counter is what index_to_address gives for
\* the list index of the next instruction.
C3_AddressCounter ==
    (InParseLabels \/ ParseLabelsReturned) =>
        /\ address = 4194304 + 4 * Len(instructions)
        /\ Len(instructions) = InstructionsBefore(lines, idx - 1)
        /\ address = index_to_address(Len(instructions))
        /\ \A n \in 1..Len(instructions) :
               \E k \in 1..(idx - 1) :
                   /\ ~LabelOnly(lines[k])
                   /\ InstructionsBefore(lines, k) = n
                   /\ instructions[n] = LineInstruction(lines[k])

C3_Witness ==
    /\ ParseLabelsReturned
    /\ Len(lines) = 3
    /\ LabelOnly(lines[2])
    /\ Len(instructions) = 2
    /\ address = 4194304 + 8

\* C4: every label is bound to the counter as it was before its own line
\* advanced it, that is to the address of the next instruction emitted; a
\* label-only line does not advance the counter, so consecutive label-only
\* lines bind to the same address.
C4_LabelBinding ==
    (InParseLabels \/ ParseLabelsReturned) =>
        \A k \in 1..(idx - 1) :
            HasLabel(lines[k]) =>
                /\ LineLabel(lines[k]) \in DOMAIN label_dict
                /\ label_dict[LineLabel(lines[k])]
                      = 4194304 + 4 * InstructionsBefore(lines, k - 1)
                /\ LabelOnly(lines[k]) /\ k < idx - 1 /\ LabelOnly(lines[k + 1])
                      => label_dict[LineLabel(lines[k])]
                            = label_dict[LineLabel(lines[k + 1])]

C4_Witness ==
    /\ ParseLabelsReturned
    /\ lines = <<"add t0, t1, t2", "L1:", "L2 : sub t0, t1, t2">>
    /\ label_dict["L1"] = 4194304 + 4
    /\ label_dict["L2"] = 4194304 + 4
    /\ instructions = <<"add t0, t1, t2", "sub t0, t1, t2">>

\* C6: a program with the same label declared on two lines makes label
\* resolution fail with BadLabel and return nothing; a program without such
\* a pair gets a table with exactly one entry per declared label.
C6_DuplicateLabel ==
    /\ (InParseLabels /\ err # "none") =>
           err = "BadLabel" /\ ret = <<>> /\ HasDuplicateLabel(lines)
    /\ (InParseLabels /\ err = "none" /\ idx > Len(lines)) =>
           /\ ~HasDuplicateLabel(lines)
           /\ DOMAIN label_dict = DeclaredLabels(lines)
    /\ ParseLabelsReturned =>
           /\ ~HasDuplicateLabel(lines)
           /\ DOMAIN ret[1].labels = DeclaredLabels(lines)
           /\ Cardinality(DOMAIN ret[1].labels)
                 = Cardinality({i \in 1..Len(lines) : HasLabel(lines[i])})

C6_Witness ==
    /\ InParseLabels
    /\ entry = "parse_labels"
    /\ err = "BadLabel"
    /\ ret = <<>>
    /\ lines = <<"L1:", "add t0, t1, t2", "L1: addi t0, t1, 5">>

\* ------------------------------------------------------------------------
\* Vocabulary of the properties of the encoder
\* ------------------------------------------------------------------------
AssembleCalled == entry = "Assemble" /\ pc = "Assemble"

Cmd == tokenize(inst)[1]
Operands == Tail(tokenize(inst))
TypeOf(cmd) == IF cmd \in DOMAIN inst_to_types THEN inst_to_types[cmd] ELSE "None"

ArithI == {"addi", "xori", "ori", "andi"}
ShiftI == {"slli", "srli", "srai"}
BaseOffsetI == {"lw", "jalr"}

\* a 32-bit word as Assemble prints it: 8 groups of 4 binary digits, one
\* space between groups
IsWord(w) ==
    /\ Len(w) = 39
    /\ \A i \in 1..39 :
          IF i % 5 = 0 THEN CharAt(w, i) = " " ELSE CharAt(w, i) \in {"0", "1"}

\* bit k of a word, k = 1 the most significant
BitOf(w, k) == IF CharAt(w, k + (k - 1) \div 4) = "1" THEN 1 ELSE 0

\* value of the bits a..b of a word (a the most significant)
RECURSIVE FieldOf(_, _, _)
FieldOf(w, a, b) == IF a > b THEN 0 ELSE 2 * FieldOf(w, a, b - 1) + BitOf(w, b)

\* value of a string of binary digits
RECURSIVE BinVal(_)
BinVal(str) ==
    IF Len(str) = 0 THEN 0
    ELSE 2 * BinVal(SubSeq(str, 1, Len(str) - 1))
         + (IF CharAt(str, Len(str)) = "1" THEN 1 ELSE 0)

IsLiteral(tok) == int(tok).err = "none"
LiteralIn(tok, lo, hi) == IsLiteral(tok) /\ int(tok).val >= lo /\ int(tok).val <= hi

\* offset(base): the text before the parenthesis and the text inside it
IsMemOperand(tok) == find(tok, "(", 1) > 1 /\ endswith(tok, ")")
MemOffset(tok) == SubSeq(tok, 1, find(tok, "(", 1) - 1)
MemBase(tok) == SubSeq(tok, find(tok, "(", 1) + 1, Len(tok) - 1)
ValidMemOperand(tok) ==
    IsMemOperand(tok) /\ LiteralIn(MemOffset(tok), -2048, 2047)
                      /\ is_register_name(MemBase(tok))

\* a branch or jump target: a decimal byte offset, or a label of the table
ValidTarget(tok, n, labs, lo, hi) ==
    \/ LiteralIn(tok, lo, hi)
    \/ /\ ~IsLiteral(tok)
       /\ ~is_register_name(tok)
       /\ tok \in DOMAIN labs
       /\ labs[tok] - (4194304 + 4 * n) >= lo
       /\ labs[tok] - (4194304 + 4 * n) <= hi

\* the instruction is valid in the operand syntax of its format
ValidInstruction(cmd, ops, n, labs) ==
    LET type == TypeOf(cmd) IN
    CASE type = "R" ->
            Len(ops) = 3 /\ \A i \in 1..3 : is_register_name(ops[i])
      [] type = "I" /\ cmd \in ArithI ->
            /\ Len(ops) = 3
            /\ is_register_name(ops[1]) /\ is_register_name(ops[2])
            /\ LiteralIn(ops[3], -2048, 2047)
      [] type = "I" /\ cmd \in ShiftI ->
            /\ Len(ops) = 3
            /\ is_register_name(ops[1]) /\ is_register_name(ops[2])
            /\ LiteralIn(ops[3], 0, 31)
      [] type = "I" /\ cmd \in BaseOffsetI ->
            Len(ops) = 2 /\ is_register_name(ops[1]) /\ ValidMemOperand(ops[2])
      [] type = "S" ->
            Len(ops) = 2 /\ is_register_name(ops[1]) /\ ValidMemOperand(ops[2])
      [] type = "SB" ->
            /\ Len(ops) = 3
            /\ is_register_name(ops[1]) /\ is_register_name(ops[2])
            /\ ValidTarget(ops[3], n, labs, -4096, 4094)
      [] type = "U" ->
            /\ Len(ops) = 2 /\ is_register_name(ops[1])
            /\ LiteralIn(ops[2], -524288, 524287)
      [] type = "UJ" ->
            /\ Len(ops) = 2 /\ is_register_name(ops[1])
            /\ ValidTarget(ops[2], n, labs, -1048576, 1048575)
      [] OTHER -> FALSE

\* the other accepted spellings of lw and jalr:
\* `op rd, base, offset` and `op rd, offset (base)`
ValidVariant(cmd, ops) ==
    /\ cmd \in BaseOffsetI
    /\ Len(ops) = 3
    /\ is_register_name(ops[1])
    /\ \/ is_register_name(ops[2]) /\ LiteralIn(ops[3], -2048, 2047)
       \/ /\ LiteralIn(ops[2], -2048, 2047)
          /\ startswith(ops[3], "(") /\ endswith(ops[3], ")")
          /\ is_register_name(SubSeq(ops[3], 2, Len(ops[3]) - 1))

C2_RTypeLayout ==
    /\ AssembleCalled /\ Len(tokenize(inst)) = 4 /\ TypeOf(Cmd) = "R"
       /\ (\A i \in 1..3 : Operands[i] \in DOMAIN register_name_to_num) =>
           /\ err = "none" /\ Len(ret) = 1 /\ IsWord(ret[1])
           /\ FieldOf(ret[1], 1, 7) = BinVal(inst_to_fields[Cmd].func7)
           /\ FieldOf(ret[1], 8, 12) = register_name_to_num[Operands[3]]
           /\ FieldOf(ret[1], 13, 17) = register_name_to_num[Operands[2]]
           /\ FieldOf(ret[1], 18, 20) = BinVal(inst_to_fields[Cmd].func3)
           /\ FieldOf(ret[1], 21, 25) = register_name_to_num[Operands[1]]
           /\ FieldOf(ret[1], 26, 32) = BinVal(inst_to_fields[Cmd].opcode)
    /\ AssembleCalled /\ inst = "add t0, t1, t2" =>
           ret = <<"0000 0000 0111 0011 0000 0010 1011 0011">>

C2_Witness ==
    /\ AssembleCalled
    /\ inst = "sub x27, t1, t2"
    /\ ret = <<"0100 0000 0111 0011 0000 1101 0011 0011">>

\* ------------------------------------------------------------------------
\* The pipeline on label-only lines
\* ------------------------------------------------------------------------
\* a line of a program of labels alone and label-free core instructions
PlainProgramLine(line) ==
    \/ LabelOnly(line) /\ Len(split(LineLabel(line))) = 1
    \/ /\ ~HasLabel(line)
       /\ Len(tokenize(line)) > 0
       /\ tokenize(line)[1] \in DOMAIN inst_to_types

LabelAloneBeforeInstruction(ls) ==
    /\ \A k \in 1..Len(ls) : PlainProgramLine(ls[k])
    /\ ~HasDuplicateLabel(ls)
    /\ \E k, j \in 1..Len(ls) : k < j /\ LabelOnly(ls[k]) /\ ~LabelOnly(ls[j])

\* C5: on a program with a label alone on a line and an instruction on a
\* later line, comments_pass, pseudoinstruction_pass and parse_labels all
\* complete without error, the expander hands the lines on unchanged, and
\* the label is bound to the address of that instruction.
C5_LabelOnlyLinePipeline ==
    entry = "assemble_asm" /\ LabelAloneBeforeInstruction(asm_lines) =>
        /\ pc \in {"pseudoinstruction_pass", "parse_labels"} => err = "none"
        /\ pc = "parse_labels" => lines = comments_pass(asm_lines)
        /\ pc \in {"machine_pass", "output", "done"} =>
               \A k \in 1..Len(asm_lines) :
                   LabelOnly(asm_lines[k]) =>
                       /\ LineLabel(asm_lines[k]) \in DOMAIN label_dict
                       /\ label_dict[LineLabel(asm_lines[k])]
                             = 4194304 + 4 * InstructionsBefore(asm_lines, k - 1)

\* ------------------------------------------------------------------------
\* Errors of the encoder
\* ------------------------------------------------------------------------
\* C7: an instruction whose mnemonic is not a key of inst_to_types makes
\* Assemble fail with BadInstruction and return no word.
C7_UnknownMnemonic ==
    AssembleCalled /\ Len(tokenize(inst)) > 0 /\ Cmd \notin DOMAIN inst_to_types =>
        err = "BadInstruction" /\ ret = <<>>

\* the operand counts of the formats
ArityOK(cmd, n) ==
    LET type == TypeOf(cmd) IN
    CASE type = "R" -> n = 3
      [] type = "I" /\ cmd = "lw" -> n = 2
      [] type = "I" /\ cmd = "jalr" -> n \in {2, 3}
      [] type = "I" /\ cmd \notin BaseOffsetI -> n = 3
      [] type = "S" -> n = 2
      [] type = "SB" -> n = 3
      [] type = "U" -> n = 2
      [] type = "UJ" -> n = 2

\* C8: a core mnemonic with a number of operands that does not match the
\* arity of its format fails with BadOperands and with nothing else.
C8_WrongOperandCount ==
    AssembleCalled /\ Len(tokenize(inst)) > 0 /\ Cmd \in DOMAIN inst_to_types
                   /\ ~ArityOK(Cmd, Len(Operands)) =>
        err = "BadOperands" /\ ret = <<>>

\* a token that is plainly a name: no literal, no parenthesis
PlainName(tok) == ~IsLiteral(tok) /\ ~contains(tok, "(") /\ ~contains(tok, ")")

\* the operand count is right, some register position holds a token that is
\* not a key of the register table, every other operand is valid
BadRegisterCase(cmd, ops, n, labs) ==
    LET type == TypeOf(cmd)
        bad(tok) == tok \notin DOMAIN register_name_to_num
    IN
    CASE type = "R" -> Len(ops) = 3 /\ \E i \in 1..3 : bad(ops[i])
      [] type = "I" /\ cmd \in ArithI ->
            /\ Len(ops) = 3 /\ LiteralIn(ops[3], -2048, 2047)
            /\ (bad(ops[1]) \/ bad(ops[2]))
      [] type = "I" /\ cmd \in ShiftI ->
            /\ Len(ops) = 3 /\ LiteralIn(ops[3], 0, 31)
            /\ (bad(ops[1]) \/ bad(ops[2]))
      [] type = "I" /\ cmd \in BaseOffsetI ->
            \/ /\ Len(ops) = 2 /\ IsMemOperand(ops[2])
               /\ LiteralIn(MemOffset(ops[2]), -2048, 2047)
               /\ PlainName(ops[1]) /\ PlainName(MemBase(ops[2]))
               /\ (bad(ops[1]) \/ bad(MemBase(ops[2])))
            \/ /\ cmd = "jalr" /\ Len(ops) = 3
               /\ LiteralIn(ops[3], -2048, 2047)
               /\ PlainName(ops[1]) /\ PlainName(ops[2])
               /\ (bad(ops[1]) \/ bad(ops[2]))
      [] type = "S" ->
            /\ Len(ops) = 2 /\ IsMemOperand(ops[2])
            /\ LiteralIn(MemOffset(ops[2]), -2048, 2047)
            /\ (bad(ops[1]) \/ bad(MemBase(ops[2])))
      [] type = "SB" ->
            /\ Len(ops) = 3 /\ ValidTarget(ops[3], n, labs, -4096, 4094)
            /\ (bad(ops[1]) \/ bad(ops[2]))
      [] type = "U" ->
            Len(ops) = 2 /\ LiteralIn(ops[2], -524288, 524287) /\ bad(ops[1])
      [] type = "UJ" ->
            /\ Len(ops) = 2 /\ ValidTarget(ops[2], n, labs, -1048576, 1048575)
            /\ bad(ops[1])
      [] OTHER -> FALSE

\* C9: with the right operand count and every other operand valid, a token
\* in a register position that is not a key of the register table makes the
\* encoding fail with BadRegister.
C9_BadRegister ==
    AssembleCalled /\ Len(tokenize(inst)) > 0
                   /\ BadRegisterCase(Cmd, Operands, line_num, labels) =>
        err = "BadRegister" /\ ret = <<>>

\* C10: addi, xori, ori, andi with valid registers fail with BadImmediate
\* when the immediate is outside [-2048, 2047], and inside it encode to the
\* 12-bit two's complement of the immediate, rs1, funct3, rd, opcode.
C10_ImmediateRange ==
    AssembleCalled /\ Len(tokenize(inst)) = 4 /\ Cmd \in ArithI
                   /\ is_register_name(Operands[1]) /\ is_register_name(Operands[2])
                   /\ IsLiteral(Operands[3]) =>
        LET v == int(Operands[3]).val IN
        IF v < -2048 \/ v > 2047
        THEN err = "BadImmediate" /\ ret = <<>>
        ELSE /\ err = "none" /\ Len(ret) = 1 /\ IsWord(ret[1])
             /\ FieldOf(ret[1], 1, 12) = (IF v < 0 THEN v + 4096 ELSE v)
             /\ FieldOf(ret[1], 13, 17) = register_name_to_num[Operands[2]]
             /\ FieldOf(ret[1], 18, 20) = BinVal(inst_to_fields[Cmd].func3)
             /\ FieldOf(ret[1], 21, 25) = register_name_to_num[Operands[1]]
             /\ FieldOf(ret[1], 26, 32) = BinVal(inst_to_fields[Cmd].opcode)

\* ------------------------------------------------------------------------
\* Branch and jump targets
\* ------------------------------------------------------------------------
\* a branch with two valid registers or a jal with a valid rd
BranchOrJump(cmd, ops) ==
    \/ TypeOf(cmd) = "SB" /\ Len(ops) = 3
          /\ is_register_name(ops[1]) /\ is_register_name(ops[2])
    \/ TypeOf(cmd) = "UJ" /\ Len(ops) = 2 /\ is_register_name(ops[1])

\* the target token of a branch or jump
TargetOf(ops) == ops[Len(ops)]

\* C11: a branch or jal with valid registers whose target token is a
\* register name or alias fails with BadImmediate, not BadRegister nor
\* BadLabel, whatever the label table holds.
C11_RegisterAsTarget ==
    AssembleCalled /\ Len(tokenize(inst)) > 0 /\ BranchOrJump(Cmd, Operands)
                   /\ TargetOf(Operands) \in DOMAIN register_name_to_num =>
        err = "BadImmediate" /\ ret = <<>>

C11_Witness ==
    /\ AssembleCalled
    /\ inst = "beq t0, t1, t2"
    /\ "t2" \in DOMAIN labels
    /\ err = "BadImmediate"

\* C12: a branch or jal whose target is neither a decimal literal nor a
\* register name and is not a key of the label table fails with BadLabel,
\* for every label table, the empty one included.
C12_UnknownLabel ==
    AssembleCalled /\ Len(tokenize(inst)) > 0 /\ BranchOrJump(Cmd, Operands)
                   /\ ~IsLiteral(TargetOf(Operands))
                   /\ TargetOf(Operands) \notin DOMAIN register_name_to_num
                   /\ TargetOf(Operands) \notin DOMAIN labels =>
        err = "BadLabel" /\ ret = <<>>

\* the same for the label tables that are not empty
C12_NonEmptyTable ==
    DOMAIN labels # {} => C12_UnknownLabel

\* ------------------------------------------------------------------------
\* The whole pipeline
\* ------------------------------------------------------------------------
TypedErrors ==
    {"BadInstruction", "BadOperands", "BadRegister", "BadImmediate", "BadLabel"}

\* machine_pass has returned its list to assemble_asm
MachinePassReturned == entry = "assemble_asm" /\ pc \in {"output", "done"}

\* C13: a run of the pipeline returns one valid 32-bit word per instruction
\* or fails with a typed error: the list machine_pass returns is never
\* shorter than the program and never holds an entry that is not a word,
\* and a failure inside machine_pass is one of the five typed errors.
C13_AllOrNothing ==
    /\ MachinePassReturned =>
          /\ Len(machine_code) = Len(instructions)
          /\ \A k \in 1..Len(machine_code) : IsWord(machine_code[k])
    /\ entry = "assemble_asm" /\ pc = "machine_pass" /\ err # "none" =>
          err \in TypedErrors

\* the list is never shorter than the program
C13_FullLength ==
    MachinePassReturned => Len(machine_code) = Len(instructions)

\* ------------------------------------------------------------------------
\* The integer-to-binary codec
\* ------------------------------------------------------------------------
DecToBinCalled == entry = "dec_to_bin" /\ pc = "dec_to_bin"

\* the argument is an int, or a str that int() parses
Parses(d) == d.type = "int" \/ is_int(d.val)

\* the integer the argument stands for
IntegerOf(d) == IF d.type = "int" THEN d.val ELSE int(d.val).val

\* s is a string of n binary digits
IsBits(s, n) ==
    Len(s) = n /\ \A k \in 1..n : CharAt(s, k) \in {"0", "1"}

\* C14: dec_to_bin(v, size) fails with BadImmediate exactly when v >= 2^size
\* or the input is a string that does not parse as an integer; for every
\* other integer, however negative, it returns exactly `size` bits, the
\* binary form of v mod 2^size.
C14_DecToBin ==
    DecToBinCalled =>
        IF ~Parses(decimal) \/ IntegerOf(decimal) >= 2 ^ size
        THEN err = "BadImmediate" /\ ret = <<>>
        ELSE /\ err = "none"
             /\ Len(ret) = 1
             /\ IsBits(ret[1], size)
             /\ BinVal(ret[1]) = IntegerOf(decimal) % (2 ^ size)

\* a value below -2^(size-1) wraps silently
C14_Witness ==
    /\ DecToBinCalled
    /\ decimal.type = "int" /\ decimal.val = -5000
    /\ size = 12
    /\ ret = <<"110001111000">>

\* the two values the documentation quotes
C14_Quoted ==
    DecToBinCalled /\ size = 12 /\ decimal.type = "int" =>
        /\ decimal.val = -1 => ret = <<"111111111111">>
        /\ decimal.val = 0 => ret = <<"000000000000">>

\* ------------------------------------------------------------------------
\* Base-offset instructions
\* ------------------------------------------------------------------------
\* the offset and the base register of one of the other spellings
VariantOffset(ops) == IF is_register_name(ops[2]) THEN ops[3] ELSE ops[2]
VariantBase(ops) ==
    IF is_register_name(ops[2]) THEN ops[2]
    ELSE SubSeq(ops[3], 2, Len(ops[3]) - 1)

\* the spelling `op rd, offset(base)` of the same instruction
CanonicalText(cmd, ops) ==
    cmd \o " " \o ops[1] \o ", " \o VariantOffset(ops)
        \o "(" \o VariantBase(ops) \o ")"

\* C15: for jalr and lw, a valid rd, base register and in-range offset, the
\* spellings `op rd, base, offset` and `op rd, offset (base)` are accepted
\* and encode to the word of `op rd, offset(base)`, which is accepted too.
C15_VariantsAgree ==
    AssembleCalled /\ Len(tokenize(inst)) > 0 /\ ValidVariant(Cmd, Operands) =>
        LET canonical == Assemble(CanonicalText(Cmd, Operands), line_num, labels)
        IN  /\ canonical.err = "none"
            /\ err = "none"
            /\ ret = <<canonical.val>>

\* the part of it that holds: jalr with an offset without a sign
C15_JalrUnsigned ==
    AssembleCalled /\ Len(tokenize(inst)) > 0 /\ ValidVariant(Cmd, Operands)
                   /\ Cmd = "jalr" /\ isdecimal(VariantOffset(Operands)) =>
        LET canonical == Assemble(CanonicalText(Cmd, Operands), line_num, labels)
        IN  /\ canonical.err = "none"
            /\ err = "none"
            /\ ret = <<canonical.val>>

\* ------------------------------------------------------------------------
\* Labels on pseudoinstructions
\* ------------------------------------------------------------------------
\* the mnemonic of the instruction on a line
LineCommand(line) == split(LineInstruction(line))[1]

\* a line `L: p ...` whose mnemonic p is a registered pseudoinstruction
LabelledPseudo(line) ==
    /\ HasLabel(line)
    /\ Len(split(LineInstruction(line))) > 0
    /\ LineCommand(line) \in pseudos

\* the lines pseudoinstruction_pass was given
ExpanderInput == comments_pass(asm_lines)

\* pseudoinstruction_pass has returned to assemble_asm
ExpansionDone ==
    entry = "assemble_asm" /\ pc = "parse_labels" /\ idx = 1 /\ err = "none"

\* C16: when a line has a label prefix `L:` and its mnemonic is a registered
\* pseudoinstruction, the expander's output carries `L:` on the first line
\* of the expansion and on no other line, and the resolver then defines L.
C16_LabelReattached ==
    /\ ExpansionDone =>
          \A k \in 1..Len(ExpanderInput) :
              LabelledPseudo(ExpanderInput[k]) =>
                  LET L == LineLabel(ExpanderInput[k])
                      first == expansion_rule(LineCommand(ExpanderInput[k]),
                                              LineInstruction(ExpanderInput[k]),
                                              k - 1)[1]
                  IN  /\ \E j \in 1..Len(lines) :
                             /\ HasLabel(lines[j])
                             /\ LineLabel(lines[j]) = L
                             /\ LineInstruction(lines[j]) = first
                      /\ Cardinality({j \in 1..Len(lines) :
                              HasLabel(lines[j]) /\ LineLabel(lines[j]) = L}) <= 1
    /\ entry = "assemble_asm" /\ pc = "machine_pass" =>
          \A k \in 1..Len(ExpanderInput) :
              LabelledPseudo(ExpanderInput[k]) =>
                  LineLabel(ExpanderInput[k]) \in DOMAIN labels

\* what the expander does: no line of an expansion carries a label
C16_LabelDropped ==
    ExpansionDone /\ Len(ExpanderInput) = 1
                  /\ LabelledPseudo(ExpanderInput[1]) =>
        \A j \in 1..Len(lines) : ~HasLabel(lines[j])

\* ------------------------------------------------------------------------
\* Branch and jump encodings
\* ------------------------------------------------------------------------
\* the byte offset a target token stands for at instruction index n
ByteOffset(tok, n, labs) ==
    IF IsLiteral(tok) THEN int(tok).val ELSE labs[tok] - (4194304 + 4 * n)

\* bits hi..lo of the two's complement of off, as a number
ImmBits(off, hi, lo) == ((off % (2 ^ 21)) \div (2 ^ lo)) % (2 ^ (hi - lo + 1))

\* a branch with valid registers and an even byte offset in [-4096, 4094]
BranchInRange ==
    /\ AssembleCalled /\ Len(tokenize(inst)) = 4 /\ TypeOf(Cmd) = "SB"
    /\ is_register_name(Operands[1]) /\ is_register_name(Operands[2])
    /\ ValidTarget(Operands[3], line_num, labels, -4096, 4094)
    /\ ByteOffset(Operands[3], line_num, labels) % 2 = 0

\* C17: a branch `op rs1, rs2, target` whose byte offset off, the literal
\* itself or label_table[target] - (0x00400000 + 4 * i), is even and lies in
\* [-4096, 4094] encodes to {imm[12], imm[10:5]} rs2 rs1 funct3
\* {imm[4:1], imm[11]} opcode, imm[k] being bit k of the two's complement of
\* off.
C17_BranchLayout ==
    BranchInRange =>
        LET off == ByteOffset(Operands[3], line_num, labels) IN
        /\ err = "none" /\ Len(ret) = 1 /\ IsWord(ret[1])
        /\ BitOf(ret[1], 1) = ImmBits(off, 12, 12)
        /\ FieldOf(ret[1], 2, 7) = ImmBits(off, 10, 5)
        /\ FieldOf(ret[1], 8, 12) = register_name_to_num[Operands[2]]
        /\ FieldOf(ret[1], 13, 17) = register_name_to_num[Operands[1]]
        /\ FieldOf(ret[1], 18, 20) = BinVal(inst_to_fields[Cmd].func3)
        /\ FieldOf(ret[1], 21, 24) = ImmBits(off, 4, 1)
        /\ BitOf(ret[1], 25) = ImmBits(off, 11, 11)
        /\ FieldOf(ret[1], 26, 32) = BinVal(inst_to_fields[Cmd].opcode)

\* an offset whose bit 11 is set and whose bit 12 is clear
C17_Witness ==
    /\ BranchInRange
    /\ Operands[3] = "2048"
    /\ err = "none"
    /\ BitOf(ret[1], 25) = 1 /\ BitOf(ret[1], 1) = 0

\* a label behind the branch: a negative offset from the label table
C17_WitnessLabel ==
    /\ BranchInRange
    /\ Operands[3] = "L1" /\ ByteOffset(Operands[3], line_num, labels) = -4
    /\ err = "none"
    /\ BitOf(ret[1], 1) = 1

\* a jal with a valid rd and a byte offset in [-2^20, 2^20 - 1]
JalInRange ==
    /\ AssembleCalled /\ Len(tokenize(inst)) = 3 /\ TypeOf(Cmd) = "UJ"
    /\ is_register_name(Operands[1])
    /\ ValidTarget(Operands[2], line_num, labels, -1048576, 1048575)

\* a jal with a valid rd and a literal offset outside [-2^20, 2^20 - 1]
JalOutOfRange ==
    /\ AssembleCalled /\ Len(tokenize(inst)) = 3 /\ TypeOf(Cmd) = "UJ"
    /\ is_register_name(Operands[1])
    /\ IsLiteral(Operands[2])
    /\ ~LiteralIn(Operands[2], -1048576, 1048575)

\* C18: a `jal rd, target` whose byte offset off, the literal itself or
\* label_table[target] - (0x00400000 + 4 * i), lies in [-2^20, 2^20 - 1]
\* encodes to {imm[20], imm[10:1], imm[11], imm[19:12]} rd opcode, imm[k]
\* being bit k of the two's complement of off; a literal offset outside that
\* range fails with BadImmediate.
C18_JalLayout ==
    /\ JalInRange =>
          LET off == ByteOffset(Operands[2], line_num, labels) IN
          /\ err = "none" /\ Len(ret) = 1 /\ IsWord(ret[1])
          /\ BitOf(ret[1], 1) = ImmBits(off, 20, 20)
          /\ FieldOf(ret[1], 2, 11) = ImmBits(off, 10, 1)
          /\ BitOf(ret[1], 12) = ImmBits(off, 11, 11)
          /\ FieldOf(ret[1], 13, 20) = ImmBits(off, 19, 12)
          /\ FieldOf(ret[1], 21, 25) = register_name_to_num[Operands[1]]
          /\ FieldOf(ret[1], 26, 32) = BinVal(inst_to_fields[Cmd].opcode)
    /\ JalOutOfRange => err = "BadImmediate" /\ ret = <<>>

\* an offset whose bit 11 alone is set
C18_Witness ==
    /\ JalInRange
    /\ Operands[2] = "2048"
    /\ err = "none"
    /\ BitOf(ret[1], 12) = 1 /\ FieldOf(ret[1], 1, 11) = 0

\* the first literal above the range
C18_WitnessOutOfRange ==
    JalOutOfRange /\ Operands[2] = "1048576" /\ err = "BadImmediate"

\* ------------------------------------------------------------------------
\* Shifts by an immediate
\* ------------------------------------------------------------------------
\* a shift with valid registers and a decimal literal as its third operand
ShiftOperands ==
    /\ Len(tokenize(inst)) = 4 /\ Cmd \in ShiftI
    /\ is_register_name(Operands[1]) /\ is_register_name(Operands[2])
    /\ IsLiteral(Operands[3])

Shamt == int(Operands[3]).val

\* the 12-bit immediate field of a shift by shamt
ShiftField(cmd, shamt) == IF cmd = "srai" THEN 1024 + (shamt % 64) ELSE shamt

\* the same shift spelled with srli
AsSrli == "srli " \o join_operands(Operands)

\* C19: slli, srli and srai dispatched through Assemble with valid registers
\* succeed exactly when shamt is in [0, 31] and fail with BadImmediate
\* otherwise; the immediate field is the shamt pattern, for srai with its top
\* 6 bits forced to 010000, so that srai and srli with the same operands
\* encode to different words.
C19_ShiftImmediate ==
    AssembleCalled /\ ShiftOperands =>
        IF Shamt \in 0..31
        THEN /\ err = "none" /\ Len(ret) = 1 /\ IsWord(ret[1])
             /\ FieldOf(ret[1], 1, 12) = ShiftField(Cmd, Shamt)
             /\ Cmd = "srai" => ret[1] # Assemble(AsSrli, line_num, labels).val
        ELSE err = "BadImmediate" /\ ret = <<>>

\* what Assemble does with a shift: the encoding of an arithmetic I-format
\* instruction, any shamt below 2^12 taken as it is
C19_ShiftAsArithmetic ==
    AssembleCalled /\ ShiftOperands =>
        IF Shamt < 4096
        THEN /\ err = "none" /\ Len(ret) = 1 /\ IsWord(ret[1])
             /\ FieldOf(ret[1], 1, 12) = Shamt % 4096
             /\ ret[1] = Assemble(AsSrli, line_num, labels).val
                   \/ Cmd = "slli"
        ELSE err = "BadImmediate" /\ ret = <<>>

\* Assemble_I_Type_shift called on its own does force 010000 on srai, but
\* takes a shamt in [0, 13] only
C19_ShiftEncoderAlone ==
    entry = "Assemble_I_Type_shift" /\ pc = "Assemble_I_Type_shift"
                                     /\ ShiftOperands =>
        IF Shamt \in 0..13
        THEN /\ err = "none" /\ Len(ret) = 1 /\ IsWord(ret[1])
             /\ FieldOf(ret[1], 1, 12) = ShiftField(Cmd, Shamt)
        ELSE err = "BadImmediate" /\ ret = <<>>

\* ------------------------------------------------------------------------
\* The immediate of lw and jalr
\* ------------------------------------------------------------------------
\* `op rd, offset(base)` with valid registers and a decimal offset
BaseOffsetForm ==
    /\ AssembleCalled /\ Len(tokenize(inst)) = 3 /\ Cmd \in BaseOffsetI
    /\ is_register_name(Operands[1])
    /\ IsMemOperand(Operands[2])
    /\ IsLiteral(MemOffset(Operands[2]))
    /\ is_register_name(MemBase(Operands[2]))

\* the part of the offset the encoder reads: its first character, or its
\* sign and first digit
LeadingOffset(tok) == IF CharAt(tok, 1) = "-" THEN slice(tok, 0, 2) ELSE slice(tok, 0, 1)

\* C20: lw and jalr in the form `op rd, offset(base)` with valid registers
\* encode to imm rs1 funct3 rd opcode, imm being the 12-bit two's complement
\* of the whole decimal offset for every offset in [-2048, 2047] and rs1 the
\* ID of the base register; an offset outside that range fails with
\* BadImmediate.
C20_BaseOffsetImmediate ==
    BaseOffsetForm =>
        LET off == int(MemOffset(Operands[2])).val IN
        IF off >= -2048 /\ off <= 2047
        THEN /\ err = "none" /\ Len(ret) = 1 /\ IsWord(ret[1])
             /\ FieldOf(ret[1], 1, 12) = off % 4096
             /\ FieldOf(ret[1], 13, 17) = register_name_to_num[MemBase(Operands[2])]
             /\ FieldOf(ret[1], 18, 20) = BinVal(inst_to_fields[Cmd].func3)
             /\ FieldOf(ret[1], 21, 25) = register_name_to_num[Operands[1]]
             /\ FieldOf(ret[1], 26, 32) = BinVal(inst_to_fields[Cmd].opcode)
        ELSE err = "BadImmediate" /\ ret = <<>>

\* what the encoder does: the immediate is that of the leading character of
\* the offset, whatever follows it, so no offset is out of range
C20_LeadingCharacterOnly ==
    BaseOffsetForm =>
        /\ err = "none" /\ Len(ret) = 1 /\ IsWord(ret[1])
        /\ FieldOf(ret[1], 1, 12)
              = int(LeadingOffset(MemOffset(Operands[2]))).val % 4096
        /\ FieldOf(ret[1], 13, 17) = register_name_to_num[MemBase(Operands[2])]
        /\ FieldOf(ret[1], 18, 20) = BinVal(inst_to_fields[Cmd].func3)
        /\ FieldOf(ret[1], 21, 25) = register_name_to_num[Operands[1]]
        /\ FieldOf(ret[1], 26, 32) = BinVal(inst_to_fields[Cmd].opcode)

\* ------------------------------------------------------------------------
\* Register lookup
\* ------------------------------------------------------------------------
GetRegisterBinCalled == entry = "get_register_bin" /\ pc = "get_register_bin"

\* the x-names
XNames == {XName(n) : n \in 0..31}

\* the number of the x-name nm
XNumber(nm) == CHOOSE n \in 0..31 : XName(n) = nm

\* the x-names that resolve to the ID n
XNamesOf(n) == {nm \in XNames : get_register_bin(nm) = Ok(dec_to_bin(n, 5).val)}

\* C21: for every n in 0..31 the alias xn resolves through get_register_bin
\* to the 5-bit binary of n, so no two x-names resolve to the same ID and
\* every ID in 0..31 is the image of exactly one x-name.
C21_XNamesResolve ==
    GetRegisterBinCalled /\ name \in XNames =>
        /\ err = "none" /\ Len(ret) = 1 /\ IsBits(ret[1], 5)
        /\ BinVal(ret[1]) = XNumber(name)
        /\ \A other \in XNames \ {name} : get_register_bin(other).val # ret[1]
        /\ Cardinality(XNamesOf(XNumber(name))) = 1

\* the part of it that holds: every x-name but x27 resolves to its number,
\* and x27 resolves to the ID of x26
C21_AllButX27 ==
    GetRegisterBinCalled /\ name \in XNames =>
        /\ err = "none" /\ Len(ret) = 1 /\ IsBits(ret[1], 5)
        /\ BinVal(ret[1]) = IF name = "x27" THEN 26 ELSE XNumber(name)

\* the lookup itself: a key of the table resolves to the 5 bits of its
\* entry, any other name fails with BadRegister
C21_Lookup ==
    GetRegisterBinCalled =>
        IF name \in DOMAIN register_name_to_num
        THEN /\ err = "none" /\ Len(ret) = 1 /\ IsBits(ret[1], 5)
             /\ BinVal(ret[1]) = register_name_to_num[name]
        ELSE err = "BadRegister" /\ ret = <<>>

====
